---- MODULE Spec2Model ----
(***************************************************************************)
(* Model of the thread-dump parser (src/src/parser/parseThreadDump.tsx).   *)
(* Thread and Lock objects live in a heap and are named by reference, so   *)
(* that identity, sharing between dumps and mutation after delivery are    *)
(* visible.  The module-level cursor currentThread survives between calls  *)
(* of parseThreadDump, as it does in the source.                           *)
(***************************************************************************)
EXTENDS Integers, Sequences, FiniteSets, TLC

\* longest document (in lines) handed to the first parse call
MaxLines == 4
\* number of parseThreadDump calls made in one process
MaxCalls == 2

\* longest document made only of thread headers, WAITING state lines and
\* 'locked' records (several threads that reach the post-pass with locks)
MaxLockLines == 6

\* longest document that the process parses again in a later call
MaxReplayLines == 3

\* lines of one document that change nothing (blank, informational, unparsable,
\* eliminated or unknown-verb records)
MaxNoise == 1

\* the value of an unset reference (let currentThread: Thread; a new Lock's owner)
undefined == 0

VARIABLES heapThreads, heapLocks, dumps, currentThread, pc, doc, pos, outcomes, delivered

vars == <<heapThreads, heapLocks, dumps, currentThread, pc, doc, pos, outcomes, delivered>>

----------------------------------------------------------------------------
(* Strings as character sequences, for startsWith and parseInt *)

Chars(s) ==
  CASE s = "RUNNABLE" -> <<"R","U","N","N","A","B","L","E">>
    [] s = "BLOCKED" -> <<"B","L","O","C","K","E","D">>
    [] s = "WAITING" -> <<"W","A","I","T","I","N","G">>
    [] s = "TIME_WAITING" -> <<"T","I","M","E","_","W","A","I","T","I","N","G">>
    [] s = "TIMED_WAITING" -> <<"T","I","M","E","D","_","W","A","I","T","I","N","G">>
    [] s = "WAITING (parking)" ->
         <<"W","A","I","T","I","N","G"," ","(","p","a","r","k","i","n","g",")">>
    [] s = "BLOCKED (on object monitor)" ->
         <<"B","L","O","C","K","E","D"," ","(","o","n"," ","o","b","j","e","c","t"," ",
           "m","o","n","i","t","o","r",")">>
    [] s = "TIMED_WAITING (sleeping)" ->
         <<"T","I","M","E","D","_","W","A","I","T","I","N","G"," ","(","s","l","e","e",
           "p","i","n","g",")">>
    [] s = "RUNNING" -> <<"R","U","N","N","I","N","G">>
    [] s = "NEW" -> <<"N","E","W">>
    [] s = "TERMINATED" -> <<"T","E","R","M","I","N","A","T","E","D">>
    [] s = "UNKNOWN" -> <<"U","N","K","N","O","W","N">>
    [] s = "0x1" -> <<"0","x","1">>
    [] s = "0x2" -> <<"0","x","2">>
    [] s = "17" -> <<"1","7">>
    [] OTHER -> <<>>

StartsWith(s, p) == Len(p) <= Len(s) /\ SubSeq(s, 1, Len(p)) = p

ThreadStatusNames ==
  {"RUNNABLE", "BLOCKED", "WAITING", "TIMED_WAITING", "NEW", "TERMINATED", "UNKNOWN"}

\* the classification as it would be with the prefix rule written "TIMED_WAITING"
stringToThreadStatus_TimedPrefix(status) ==
  IF status \in ThreadStatusNames THEN status
  ELSE IF StartsWith(Chars(status), Chars("BLOCKED")) THEN "BLOCKED"
  ELSE IF StartsWith(Chars(status), Chars("WAITING")) THEN "WAITING"
  ELSE IF StartsWith(Chars(status), Chars("TIMED_WAITING")) THEN "TIMED_WAITING"
  ELSE "UNKNOWN"

stringToThreadStatus(status) ==
  IF status \in ThreadStatusNames THEN status
  ELSE IF StartsWith(Chars(status), Chars("BLOCKED")) THEN "BLOCKED"
  ELSE IF StartsWith(Chars(status), Chars("WAITING")) THEN "WAITING"
  ELSE IF StartsWith(Chars(status), Chars("TIME_WAITING")) THEN "TIMED_WAITING"
  ELSE "UNKNOWN"

DigitValue(c) ==
  CASE c = "0" -> 0 [] c = "1" -> 1 [] c = "2" -> 2 [] c = "3" -> 3 [] c = "4" -> 4
    [] c = "5" -> 5 [] c = "6" -> 6 [] c = "7" -> 7 [] c = "8" -> 8 [] c = "9" -> 9
    [] OTHER -> -1

\* not-a-number, the result of parseInt on a text without a leading digit
NaN == -1

RECURSIVE ParseDigits(_, _, _)
ParseDigits(cs, i, acc) ==
  IF i > Len(cs) \/ DigitValue(cs[i]) < 0 THEN acc
  ELSE ParseDigits(cs, i + 1, acc * 10 + DigitValue(cs[i]))

\* parseInt(text, 10): the longest prefix of decimal digits, NaN when there is none
parseInt10(text) ==
  LET cs == Chars(text)
  IN IF Len(cs) = 0 \/ DigitValue(cs[1]) < 0 THEN NaN ELSE ParseDigits(cs, 1, 0)

----------------------------------------------------------------------------
(* Lines of a document, by the pattern they match and what it captures *)

Line(kind, text, id, cls) == [kind |-> kind, text |-> text, id |-> id, cls |-> cls]

WaitVerbs == {"waiting on", "parking to wait for", "waiting to lock"}

Lines ==
  { Line("header", "Thread-1", "0x1", ""),
    Line("frame", "com.example.Foo.bar(Foo.java:10)", "", ""),
    Line("state", "RUNNABLE", "", ""),
    Line("state", "WAITING (parking)", "", ""),
    Line("sync", "waiting on", "0x1", "A"),
    Line("sync", "waiting to lock", "0x2", "B"),
    Line("sync", "locked", "0x1", "B"),
    Line("sync", "locked", "0x2", "B"),
    Line("sync", "eliminated", "0x2", "A"),
    Line("sync", "entering", "0x2", "A"),
    Line("held", "", "0x1", "A"),
    Line("info", "Locked ownable synchronizers:", "", ""),
    Line("other", "Full thread dump", "", ""),
    Line("empty", "", "", "") }

\* the lines of the longer documents
LockLines ==
  { Line("header", "Thread-1", "0x1", ""),
    Line("state", "WAITING (parking)", "", ""),
    Line("sync", "locked", "0x1", "B"),
    Line("sync", "locked", "0x2", "B") }

\* a line that no branch of parseLine / parseStackLine acts upon
IsNoise(line) ==
  \/ line.kind \in {"empty", "info", "other"}
  \/ line.kind = "sync" /\ line.text \notin WaitVerbs \cup {"locked"}

NoiseCount(d) == Cardinality({i \in 1..Len(d) : IsNoise(d[i])})

----------------------------------------------------------------------------
(* Objects *)

NewThread ==
  [name |-> "", id |-> NaN, status |-> "UNKNOWN", stackTrace |-> <<>>,
   locksHeld |-> <<>>, classicalLocksHeld |-> <<>>, lockWaitingFor |-> undefined]

NewLock(id, className) ==
  [id |-> id, className |-> className, owner |-> undefined, waiting |-> <<>>]

NewThreadDump == [threads |-> <<>>, locks |-> <<>>]

Range(s) == {s[i] : i \in 1..Len(s)}

\* Array.prototype.indexOf, 1-based; 0 stands for the -1 of "not found"
IndexOf(s, x) ==
  IF x \in Range(s) THEN CHOOSE i \in 1..Len(s) : s[i] = x /\ \A j \in 1..(i-1) : s[j] # x
  ELSE 0

\* s.splice(indexOf(x), 1): removes the first x; for index -1 it removes the last element
SpliceIndexOf(s, x) ==
  LET i == IF IndexOf(s, x) = 0 THEN Len(s) ELSE IndexOf(s, x)
  IN IF Len(s) = 0 THEN s ELSE SubSeq(s, 1, i - 1) \o SubSeq(s, i + 1, Len(s))

\* the dump under construction
cur == Len(dumps)

\* linear lookup of getOrCreateLock: the first lock of the dump with that id
FindLock(hL, locks, id) ==
  LET hits == {i \in 1..Len(locks) : hL[locks[i]].id = id}
  IN IF hits = {} THEN undefined
     ELSE locks[CHOOSE i \in hits : \A j \in hits : i <= j]

\* getOrCreateLock as it would be if the lookup also compared the class name
getOrCreateLock_ByClass(hL, locks, id, className) ==
  LET hits == {i \in 1..Len(locks) :
                 hL[locks[i]].id = id /\ hL[locks[i]].className = className}
  IN IF hits # {}
     THEN [lock |-> locks[CHOOSE i \in hits : \A j \in hits : i <= j],
           heapLocks |-> hL, locks |-> locks]
     ELSE [lock |-> Len(hL) + 1,
           heapLocks |-> Append(hL, NewLock(id, className)),
           locks |-> Append(locks, Len(hL) + 1)]

getOrCreateLock(hL, locks, id, className) ==
  LET existingLock == FindLock(hL, locks, id)
  IN IF existingLock # undefined
     THEN [lock |-> existingLock, heapLocks |-> hL, locks |-> locks]
     ELSE [lock |-> Len(hL) + 1,
           heapLocks |-> Append(hL, NewLock(id, className)),
           locks |-> Append(locks, Len(hL) + 1)]

----------------------------------------------------------------------------
(* The anonymous-synchronizer post-pass *)

validStatuses == {"BLOCKED", "TIMED_WAITING", "WAITING"}

filterCandidates(s, hT) ==
  LET noTarget(t) == hT[t].lockWaitingFor = undefined
      valid(t) == hT[t].status \in validStatuses
  IN SelectSeq(SelectSeq(s, noTarget), valid)

\* forEach over the filtered threads; threw is set by the TypeError of
\* lock.owner = null on an undefined lock, which ends the loop
\* the loop as it would be if it did not clear the owner of the chosen lock
RECURSIVE ForEachAnonymous_KeepsOwner(_, _, _)
ForEachAnonymous_KeepsOwner(ts, hT, hL) ==
  IF ts = <<>> THEN [heapThreads |-> hT, heapLocks |-> hL, threw |-> FALSE]
  ELSE LET thread == Head(ts)
           held == hT[thread].classicalLocksHeld
       IN IF held = <<>>
          THEN [heapThreads |-> hT, heapLocks |-> hL, threw |-> TRUE]
          ELSE LET lock == held[1]
                   hL2 == [hL EXCEPT ![lock].waiting = Append(@, thread)]
                   hT2 == [hT EXCEPT
                             ![thread].lockWaitingFor = lock,
                             ![thread].locksHeld = SpliceIndexOf(@, lock),
                             ![thread].classicalLocksHeld = SpliceIndexOf(@, lock)]
               IN ForEachAnonymous_KeepsOwner(Tail(ts), hT2, hL2)

RECURSIVE ForEachAnonymous(_, _, _)
ForEachAnonymous(ts, hT, hL) ==
  IF ts = <<>> THEN [heapThreads |-> hT, heapLocks |-> hL, threw |-> FALSE]
  ELSE LET thread == Head(ts)
           held == hT[thread].classicalLocksHeld
       IN IF held = <<>>
          THEN [heapThreads |-> hT, heapLocks |-> hL, threw |-> TRUE]
          ELSE LET lock == held[1]
                   hL2 == [hL EXCEPT ![lock].owner = undefined,
                                     ![lock].waiting = Append(@, thread)]
                   hT2 == [hT EXCEPT
                             ![thread].lockWaitingFor = lock,
                             ![thread].locksHeld = SpliceIndexOf(@, lock),
                             ![thread].classicalLocksHeld = SpliceIndexOf(@, lock)]
               IN ForEachAnonymous(Tail(ts), hT2, hL2)

identifyAnonymousSynchronizers(threads, hT, hL) ==
  ForEachAnonymous(filterCandidates(threads, hT), hT, hL)

----------------------------------------------------------------------------
(* What the callback receives: the dump with references made positional *)

PosIn(s, x) == IF x = undefined THEN -1 ELSE IndexOf(s, x)

PosSeq(s, xs) == [i \in 1..Len(xs) |-> PosIn(s, xs[i])]

Model(d, hT, hL) ==
  [threads |-> [i \in 1..Len(d.threads) |->
                  LET t == hT[d.threads[i]]
                  IN [name |-> t.name, id |-> t.id, status |-> t.status,
                      stackTrace |-> t.stackTrace,
                      locksHeld |-> PosSeq(d.locks, t.locksHeld),
                      classicalLocksHeld |-> PosSeq(d.locks, t.classicalLocksHeld),
                      lockWaitingFor |-> PosIn(d.locks, t.lockWaitingFor)]],
   locks |-> [j \in 1..Len(d.locks) |->
                  LET l == hL[d.locks[j]]
                  IN [id |-> l.id, className |-> l.className,
                      owner |-> PosIn(d.threads, l.owner),
                      waiting |-> PosSeq(d.threads, l.waiting)]]]

----------------------------------------------------------------------------
(* State machine *)

Init ==
  /\ heapThreads = <<>>
  /\ heapLocks = <<>>
  /\ dumps = <<>>
  /\ currentThread = undefined
  /\ pc = "idle"
  /\ doc = <<>>
  /\ pos = 0
  /\ outcomes = <<>>
  /\ delivered = <<>>

\* parseThreadDump is entered: a fresh ThreadDump, the text split into lines
Begin ==
  /\ pc = "idle"
  /\ Len(dumps) < MaxCalls
  /\ Len(dumps) >= 1 => Len(doc) <= MaxReplayLines
  /\ dumps' = Append(dumps, NewThreadDump)
  /\ pos' = 0
  /\ pc' = "parsing"
  /\ UNCHANGED <<heapThreads, heapLocks, currentThread, doc, outcomes, delivered>>

\* the next line of the text: the first call reads a new document, later calls
\* read the same text again
Reads(line) ==
  /\ pc = "parsing"
  /\ IF cur = 1
     THEN /\ \/ Len(doc) < MaxLines
             \/ /\ Len(doc) < MaxLockLines
                /\ line \in LockLines
                /\ \A i \in 1..Len(doc) : doc[i] \in LockLines
          /\ IsNoise(line) => NoiseCount(doc) < MaxNoise
          /\ doc' = Append(doc, line)
     ELSE pos < Len(doc) /\ line = doc[pos + 1] /\ doc' = doc
  /\ pos' = pos + 1
  /\ UNCHANGED <<pc, outcomes, delivered>>

\* parseThreadHeader as it would be if it put the new thread first (unshift)
parseThreadHeader_Unshift(line) ==
  /\ line.kind = "header"
  /\ Reads(line)
  /\ heapThreads' = Append(heapThreads,
        [NewThread EXCEPT !.name = line.text, !.id = parseInt10(line.id)])
  /\ currentThread' = Len(heapThreads) + 1
  /\ dumps' = [dumps EXCEPT ![cur].threads = <<Len(heapThreads) + 1>> \o @]
  /\ UNCHANGED heapLocks

parseThreadHeader(line) ==
  /\ line.kind = "header"
  /\ Reads(line)
  /\ heapThreads' = Append(heapThreads,
        [NewThread EXCEPT !.name = line.text, !.id = parseInt10(line.id)])
  /\ currentThread' = Len(heapThreads) + 1
  /\ dumps' = [dumps EXCEPT ![cur].threads = Append(@, Len(heapThreads) + 1)]
  /\ UNCHANGED heapLocks

EmptyLine(line) ==
  /\ line.kind = "empty"
  /\ Reads(line)
  /\ UNCHANGED <<heapThreads, heapLocks, dumps, currentThread>>

NoCurrentThread(line) ==
  /\ line.kind \notin {"header", "empty"}
  /\ currentThread = undefined
  /\ Reads(line)
  /\ UNCHANGED <<heapThreads, heapLocks, dumps, currentThread>>

StackFrame(line) ==
  /\ line.kind = "frame"
  /\ currentThread # undefined
  /\ Reads(line)
  /\ heapThreads' = [heapThreads EXCEPT ![currentThread].stackTrace = Append(@, line.text)]
  /\ UNCHANGED <<heapLocks, dumps, currentThread>>

ThreadState(line) ==
  /\ line.kind = "state"
  /\ currentThread # undefined
  /\ Reads(line)
  /\ heapThreads' = [heapThreads EXCEPT
                       ![currentThread].status = stringToThreadStatus(line.text)]
  /\ UNCHANGED <<heapLocks, dumps, currentThread>>

Waiting(line) ==
  /\ line.kind = "sync"
  /\ line.text \in WaitVerbs
  /\ currentThread # undefined
  /\ Reads(line)
  /\ LET r == getOrCreateLock(heapLocks, dumps[cur].locks, line.id, line.cls)
     IN /\ heapLocks' = [r.heapLocks EXCEPT ![r.lock].waiting = Append(@, currentThread)]
        /\ dumps' = [dumps EXCEPT ![cur].locks = r.locks]
        /\ heapThreads' = [heapThreads EXCEPT ![currentThread].lockWaitingFor = r.lock]
  /\ UNCHANGED currentThread

\* the suppression test as it would be if it did not compare the lock id
ReleasedWhileWaiting_AnyTarget(line) ==
  heapThreads[currentThread].lockWaitingFor # undefined

ReleasedWhileWaiting(line) ==
  /\ heapThreads[currentThread].lockWaitingFor # undefined
  /\ heapLocks[heapThreads[currentThread].lockWaitingFor].id = line.id

LockedSuppressed(line) ==
  /\ line.kind = "sync"
  /\ line.text = "locked"
  /\ currentThread # undefined
  /\ ReleasedWhileWaiting(line)
  /\ Reads(line)
  /\ UNCHANGED <<heapThreads, heapLocks, dumps, currentThread>>

Locked(line) ==
  /\ line.kind = "sync"
  /\ line.text = "locked"
  /\ currentThread # undefined
  /\ ~ReleasedWhileWaiting(line)
  /\ Reads(line)
  /\ LET r == getOrCreateLock(heapLocks, dumps[cur].locks, line.id, line.cls)
     IN /\ heapLocks' = [r.heapLocks EXCEPT ![r.lock].owner = currentThread]
        /\ dumps' = [dumps EXCEPT ![cur].locks = r.locks]
        /\ heapThreads' = [heapThreads EXCEPT
                             ![currentThread].locksHeld = Append(@, r.lock),
                             ![currentThread].classicalLocksHeld = Append(@, r.lock)]
  /\ UNCHANGED currentThread

\* the 'eliminated' case as it would be if it fell through to the 'locked' case
Eliminated_FallsThrough(line) ==
  /\ line.kind = "sync"
  /\ line.text = "eliminated"
  /\ currentThread # undefined
  /\ Reads(line)
  /\ LET r == getOrCreateLock(heapLocks, dumps[cur].locks, line.id, line.cls)
     IN /\ heapLocks' = [r.heapLocks EXCEPT ![r.lock].owner = currentThread]
        /\ dumps' = [dumps EXCEPT ![cur].locks = r.locks]
        /\ heapThreads' = [heapThreads EXCEPT
                             ![currentThread].locksHeld = Append(@, r.lock),
                             ![currentThread].classicalLocksHeld = Append(@, r.lock)]
  /\ UNCHANGED currentThread

Eliminated(line) ==
  /\ line.kind = "sync"
  /\ line.text = "eliminated"
  /\ currentThread # undefined
  /\ Reads(line)
  /\ UNCHANGED <<heapThreads, heapLocks, dumps, currentThread>>

UnknownSynchronizationStatus(line) ==
  /\ line.kind = "sync"
  /\ line.text \notin WaitVerbs \cup {"locked", "eliminated"}
  /\ currentThread # undefined
  /\ Reads(line)
  /\ UNCHANGED <<heapThreads, heapLocks, dumps, currentThread>>

\* the held-lock record as it would be if it pushed onto the classical list instead
HeldLock_WrongList(line) ==
  /\ line.kind = "held"
  /\ currentThread # undefined
  /\ Reads(line)
  /\ LET r == getOrCreateLock(heapLocks, dumps[cur].locks, line.id, line.cls)
     IN /\ heapLocks' = [r.heapLocks EXCEPT ![r.lock].owner = currentThread]
        /\ dumps' = [dumps EXCEPT ![cur].locks = r.locks]
        /\ heapThreads' = [heapThreads EXCEPT
                             ![currentThread].classicalLocksHeld = Append(@, r.lock)]
  /\ UNCHANGED currentThread

HeldLock(line) ==
  /\ line.kind = "held"
  /\ currentThread # undefined
  /\ Reads(line)
  /\ LET r == getOrCreateLock(heapLocks, dumps[cur].locks, line.id, line.cls)
     IN /\ heapLocks' = [r.heapLocks EXCEPT ![r.lock].owner = currentThread]
        /\ dumps' = [dumps EXCEPT ![cur].locks = r.locks]
        /\ heapThreads' = [heapThreads EXCEPT
                             ![currentThread].locksHeld = Append(@, r.lock)]
  /\ UNCHANGED currentThread

IgnoredLine(line) ==
  /\ line.kind = "info"
  /\ currentThread # undefined
  /\ Reads(line)
  /\ UNCHANGED <<heapThreads, heapLocks, dumps, currentThread>>

UnableToParse(line) ==
  /\ line.kind = "other"
  /\ currentThread # undefined
  /\ Reads(line)
  /\ UNCHANGED <<heapThreads, heapLocks, dumps, currentThread>>

\* all lines consumed: the post-pass, then the callback unless the post-pass threw
EndOfText == pc = "parsing" /\ (cur = 1 \/ pos = Len(doc))

Finish ==
  /\ EndOfText
  /\ LET r == identifyAnonymousSynchronizers(dumps[cur].threads, heapThreads, heapLocks)
     IN /\ heapThreads' = r.heapThreads
        /\ heapLocks' = r.heapLocks
        /\ outcomes' = Append(outcomes, IF r.threw THEN "threw" ELSE "returned")
        /\ delivered' = IF r.threw THEN delivered
                        ELSE Append(delivered,
                               [dump |-> cur,
                                model |-> Model(dumps[cur], r.heapThreads, r.heapLocks)])
  /\ pc' = "idle"
  /\ UNCHANGED <<dumps, currentThread, doc, pos>>

Next ==
  \/ Begin
  \/ \E line \in Lines : parseThreadHeader(line)
  \/ \E line \in Lines : EmptyLine(line)
  \/ \E line \in Lines : NoCurrentThread(line)
  \/ \E line \in Lines : StackFrame(line)
  \/ \E line \in Lines : ThreadState(line)
  \/ \E line \in Lines : Waiting(line)
  \/ \E line \in Lines : LockedSuppressed(line)
  \/ \E line \in Lines : Locked(line)
  \/ \E line \in Lines : Eliminated(line)
  \/ \E line \in Lines : UnknownSynchronizationStatus(line)
  \/ \E line \in Lines : HeldLock(line)
  \/ \E line \in Lines : IgnoredLine(line)
  \/ \E line \in Lines : UnableToParse(line)
  \/ Finish

Spec == Init /\ [][Next]_vars

----------------------------------------------------------------------------
(* Documents of thread headers and thread-state lines, over a wider set of *)
(* state tokens: every member name, names with a parenthesised detail, the *)
(* misspelt TIME_WAITING and a word that is no state                       *)

StatusTokens ==
  { "RUNNABLE", "BLOCKED", "WAITING", "TIMED_WAITING", "NEW", "TERMINATED", "UNKNOWN",
    "BLOCKED (on object monitor)", "WAITING (parking)", "TIMED_WAITING (sleeping)",
    "TIME_WAITING", "RUNNING" }

StatusLines ==
  {Line("header", "Thread-1", "0x1", "")}
    \cup {Line("state", token, "", "") : token \in StatusTokens}

NextStatus ==
  \/ Begin
  \/ \E line \in StatusLines : parseThreadHeader(line)
  \/ \E line \in StatusLines : ThreadState(line)
  \/ Finish

SpecStatus == Init /\ [][NextStatus]_vars

----------------------------------------------------------------------------
(* Vocabulary of the properties *)

Last(s) == s[Len(s)]

\* the dumps whose parse call has returned them to the callback
FinishedDumps == {delivered[k].dump : k \in 1..Len(delivered)}

ThreadsOf(d) == Range(dumps[d].threads)

LocksOf(d) == Range(dumps[d].locks)

\* the locks a thread refers to
LockRefs(t) ==
  Range(heapThreads[t].locksHeld) \cup Range(heapThreads[t].classicalLocksHeld)
    \cup ({heapThreads[t].lockWaitingFor} \ {undefined})

\* a step that consumes one line, and the line it consumes
LineStep == pc = "parsing" /\ pos' = pos + 1

LineRead == doc'[pos']

\* the step that runs the post-pass and ends the call
FinishStep == pc = "parsing" /\ pc' = "idle"

\* a thread the post-pass selects
Qualifies(t) ==
  /\ heapThreads[t].lockWaitingFor = undefined
  /\ heapThreads[t].status \in validStatuses

----------------------------------------------------------------------------
(* C1: in a finished dump, for every lock L and thread T of the dump, T is *)
(* in L.waiting if and only if T.lockWaitingFor is L.                      *)
C1_WaitingAgreement ==
  \A d \in FinishedDumps : \A l \in LocksOf(d) : \A t \in ThreadsOf(d) :
    (t \in Range(heapLocks[l].waiting)) <=> (heapThreads[t].lockWaitingFor = l)

(* C2: in a finished dump no thread has its wait-target among its held     *)
(* locks (locksHeld or classicalLocksHeld).                                *)
C2_TargetNotHeld ==
  \A d \in FinishedDumps : \A t \in ThreadsOf(d) :
    heapThreads[t].lockWaitingFor = undefined
    \/ /\ heapThreads[t].lockWaitingFor \notin Range(heapThreads[t].locksHeld)
       /\ heapThreads[t].lockWaitingFor \notin Range(heapThreads[t].classicalLocksHeld)

(* C3: when the post-pass meets a selected thread without a classical lock *)
(* it does nothing for it: the call returns, the thread is unchanged, and  *)
(* the other selected threads that hold a classical lock get a wait-target.*)
C3_SilentSkip ==
  [][FinishStep =>
       \A t \in ThreadsOf(cur) :
         (Qualifies(t) /\ heapThreads[t].classicalLocksHeld = <<>>) =>
           /\ Last(outcomes') = "returned"
           /\ heapThreads'[t] = heapThreads[t]
           /\ \A u \in ThreadsOf(cur) :
                (Qualifies(u) /\ heapThreads[u].classicalLocksHeld # <<>>) =>
                  heapThreads'[u].lockWaitingFor # undefined]_vars

(* C4: every parse call returns normally and has invoked the callback      *)
(* exactly once with its dump.                                             *)
C4_AlwaysDelivers ==
  /\ \A k \in 1..Len(outcomes) : outcomes[k] = "returned"
  /\ \A k \in 1..Len(outcomes) :
       Cardinality({i \in 1..Len(delivered) : delivered[i].dump = k}) = 1

(* C5: the calls of one process parse the same text; the models they hand  *)
(* to the callback are structurally equal.                                 *)
C5_ReparseEqual ==
  \A i, j \in 1..Len(delivered) : delivered[i].model = delivered[j].model

(* C6: in every parse call, a line other than a thread header that comes   *)
(* before the first header of the text changes no thread, no lock and no   *)
(* dump.                                                                   *)
C6_PreambleNoOp ==
  [][(LineStep /\ dumps[cur].threads = <<>> /\ dumps'[cur].threads = <<>>) =>
       (heapThreads' = heapThreads /\ heapLocks' = heapLocks /\ dumps' = dumps)]_vars

(* C7: a finished dump is closed (every lock and thread reachable from it  *)
(* is its own) and no later step changes its threads or locks.             *)
C7_Closed ==
  \A d \in FinishedDumps :
    /\ \A t \in ThreadsOf(d) : LockRefs(t) \subseteq LocksOf(d)
    /\ \A l \in LocksOf(d) :
         /\ heapLocks[l].owner \in ThreadsOf(d) \cup {undefined}
         /\ Range(heapLocks[l].waiting) \subseteq ThreadsOf(d)
    /\ \A e \in 1..Len(dumps) :
         e # d => ThreadsOf(d) \cap ThreadsOf(e) = {} /\ LocksOf(d) \cap LocksOf(e) = {}

C7_Frozen ==
  \A d \in FinishedDumps :
    /\ dumps'[d] = dumps[d]
    /\ \A t \in ThreadsOf(d) : heapThreads'[t] = heapThreads[t]
    /\ \A l \in LocksOf(d) : heapLocks'[l] = heapLocks[l]

\* C7: finished dumps stay closed and are never changed by a later step
C7_NoLeakAcrossCalls == [](C7_Closed) /\ [][C7_Frozen]_vars

(* C8: in a finished dump every lock in a thread's locksHeld,              *)
(* classicalLocksHeld or lockWaitingFor is in that dump's lock set.        *)
C8_NoDanglingLock ==
  \A d \in FinishedDumps : \A t \in ThreadsOf(d) : \A l \in LockRefs(t) : l \in LocksOf(d)

(* C9: lock ids are unique in every dump's lock set at every step; a       *)
(* waiting, locked or held-lock record resolves to the one lock of the     *)
(* current dump with its id, whatever its class name; and the lock set     *)
(* grows only by a lock whose id was absent.                               *)
C9_UniqueIds ==
  \A d \in 1..Len(dumps) : \A i, j \in 1..Len(dumps[d].locks) :
    heapLocks[dumps[d].locks[i]].id = heapLocks[dumps[d].locks[j]].id => i = j

C9_Resolved(line) ==
  IF line.kind = "held" \/ (line.kind = "sync" /\ line.text = "locked")
  THEN IF Len(heapThreads'[currentThread].locksHeld) > Len(heapThreads[currentThread].locksHeld)
       THEN Last(heapThreads'[currentThread].locksHeld)
       ELSE undefined
  ELSE IF line.kind = "sync" /\ line.text \in WaitVerbs
  THEN heapThreads'[currentThread].lockWaitingFor
  ELSE undefined

C9_SameInstance ==
  (LineStep /\ currentThread # undefined) =>
    LET before == dumps[cur].locks
        after == dumps'[cur].locks
        known == FindLock(heapLocks, before, LineRead.id)
        lock == C9_Resolved(LineRead)
    IN /\ \A l \in 1..Len(heapLocks) : heapLocks'[l].id = heapLocks[l].id
       /\ \/ after = before
          \/ /\ Len(after) = Len(before) + 1
             /\ SubSeq(after, 1, Len(before)) = before
             /\ \A i \in 1..Len(before) : heapLocks'[before[i]].id # heapLocks'[Last(after)].id
       /\ lock # undefined =>
            /\ lock \in Range(after)
            /\ heapLocks'[lock].id = LineRead.id
            /\ known # undefined => (lock = known /\ after = before)

\* C9: ids stay unique and every lock record resolves to the lock with its id
C9_LockIdentity == [](C9_UniqueIds) /\ [][C9_SameInstance]_vars

\* two records of different threads, with one id and different class names, have
\* met in one lock
C9_Witness ==
  \E d \in 1..Len(dumps) : \E l \in LocksOf(d) :
    /\ heapLocks[l].owner # undefined
    /\ heapLocks[l].waiting # <<>>
    /\ heapLocks[l].owner \notin Range(heapLocks[l].waiting)
    /\ \E i, j \in 1..Len(doc) :
         /\ doc[i].id = heapLocks[l].id /\ doc[j].id = heapLocks[l].id
         /\ doc[i].kind = "sync" /\ doc[j].kind = "sync"
         /\ doc[i].cls # doc[j].cls

(* C10: a thread that reaches the post-pass with status WAITING, no        *)
(* wait-target and exactly one classical lock L leaves the call with       *)
(* lockWaitingFor = L, L in neither held set, L.owner cleared and the      *)
(* thread in L.waiting.                                                    *)
C10_SingleLockResolved ==
  [][FinishStep =>
       \A t \in ThreadsOf(cur) :
         (/\ heapThreads[t].status = "WAITING"
          /\ heapThreads[t].lockWaitingFor = undefined
          /\ Len(heapThreads[t].classicalLocksHeld) = 1) =>
           LET L == heapThreads[t].classicalLocksHeld[1]
           IN /\ heapThreads'[t].lockWaitingFor = L
              /\ L \notin Range(heapThreads'[t].locksHeld)
              /\ L \notin Range(heapThreads'[t].classicalLocksHeld)
              /\ heapLocks'[L].owner = undefined
              /\ t \in Range(heapLocks'[L].waiting)]_vars

(* C11: a 'locked' record whose id is the id of the current thread's       *)
(* wait-target changes no thread, lock or dump; any other 'locked' record  *)
(* makes the current thread the owner of the lock with that id and appends *)
(* the lock to its locksHeld and classicalLocksHeld.                       *)
C11_SpuriousRelease ==
  [][(/\ LineStep
      /\ currentThread # undefined
      /\ LineRead.kind = "sync"
      /\ LineRead.text = "locked") =>
       LET t == currentThread
           target == heapThreads[t].lockWaitingFor
       IN IF target # undefined /\ heapLocks[target].id = LineRead.id
          THEN /\ heapThreads' = heapThreads
               /\ heapLocks' = heapLocks
               /\ dumps' = dumps
               /\ currentThread' = currentThread
          ELSE /\ Len(heapThreads'[t].locksHeld) = Len(heapThreads[t].locksHeld) + 1
               /\ LET lock == Last(heapThreads'[t].locksHeld)
                  IN /\ heapLocks'[lock].id = LineRead.id
                     /\ heapLocks'[lock].owner = t
                     /\ heapThreads'[t].locksHeld = Append(heapThreads[t].locksHeld, lock)
                     /\ heapThreads'[t].classicalLocksHeld =
                          Append(heapThreads[t].classicalLocksHeld, lock)
                     /\ heapThreads'[t].lockWaitingFor = target]_vars

\* a 'locked' record for the wait-target's id has just been read and dropped
C11_Witness ==
  /\ pc = "parsing"
  /\ pos >= 1
  /\ doc[pos].kind = "sync"
  /\ doc[pos].text = "locked"
  /\ currentThread # undefined
  /\ heapThreads[currentThread].lockWaitingFor # undefined
  /\ heapLocks[heapThreads[currentThread].lockWaitingFor].id = doc[pos].id
  /\ heapThreads[currentThread].locksHeld = <<>>

(* C12: the document of the header '"Thread-1" nid=0x1', the state line    *)
(* RUNNABLE and one frame yields one thread Thread-1 with id 1, status     *)
(* RUNNABLE, that frame, no held lock, no wait-target, and no lock.        *)
C12_Document ==
  << Line("header", "Thread-1", "0x1", ""),
     Line("state", "RUNNABLE", "", ""),
     Line("frame", "com.example.Foo.bar(Foo.java:10)", "", "") >>

C12_HeaderScenario ==
  \A k \in 1..Len(delivered) :
    doc = C12_Document =>
      delivered[k].model =
        [threads |-> << [name |-> "Thread-1", id |-> 1, status |-> "RUNNABLE",
                         stackTrace |-> <<"com.example.Foo.bar(Foo.java:10)">>,
                         locksHeld |-> <<>>, classicalLocksHeld |-> <<>>,
                         lockWaitingFor |-> -1] >>,
         locks |-> <<>>]

(* C13: a synchronization-status record whose verb is 'eliminated' or is   *)
(* none of the known verbs changes no thread, no lock and no dump, and the *)
(* parse goes on with the next line.                                       *)
C13_NoEffectVerbs ==
  [][(/\ LineStep
      /\ LineRead.kind = "sync"
      /\ LineRead.text \notin
           {"waiting on", "parking to wait for", "waiting to lock", "locked"}) =>
       /\ heapThreads' = heapThreads
       /\ heapLocks' = heapLocks
       /\ dumps' = dumps
       /\ currentThread' = currentThread
       /\ pc' = "parsing"]_vars

\* an 'eliminated' or unknown-verb record has just been read for a current thread,
\* and the dump has no lock with the record's id
C13_Witness ==
  /\ pc = "parsing"
  /\ pos >= 1
  /\ doc[pos].kind = "sync"
  /\ doc[pos].text \in {"eliminated", "entering"}
  /\ currentThread # undefined
  /\ dumps[cur].threads # <<>>
  /\ \A l \in LocksOf(cur) : heapLocks[l].id # doc[pos].id

(* C14: the status given to a thread by a state line is the one the        *)
(* reference gives for the line's token: the member with that name; else   *)
(* BLOCKED, WAITING, TIMED_WAITING for a token starting with BLOCKED,      *)
(* WAITING, TIME_WAITING, in that order; else UNKNOWN.                     *)
C14_Reference(token) ==
  CASE token = "RUNNABLE" -> "RUNNABLE"
    [] token = "BLOCKED" -> "BLOCKED"
    [] token = "WAITING" -> "WAITING"
    [] token = "TIMED_WAITING" -> "TIMED_WAITING"
    [] token = "NEW" -> "NEW"
    [] token = "TERMINATED" -> "TERMINATED"
    [] token = "UNKNOWN" -> "UNKNOWN"
    [] token = "BLOCKED (on object monitor)" -> "BLOCKED"
    [] token = "WAITING (parking)" -> "WAITING"
    [] token = "TIMED_WAITING (sleeping)" -> "UNKNOWN"
    [] token = "TIME_WAITING" -> "TIMED_WAITING"
    [] token = "RUNNING" -> "UNKNOWN"

\* a thread-state line was the last line read
StateLineRead == pc = "parsing" /\ pos >= 1 /\ doc[pos].kind = "state"

C19_Member(token) ==
  CASE token = "BLOCKED (on object monitor)" -> "BLOCKED"
    [] token = "WAITING (parking)" -> "WAITING"
    [] token = "TIMED_WAITING (sleeping)" -> "TIMED_WAITING"

C19_DetailedState ==
  (StateLineRead /\ doc[pos].text \in
     {"BLOCKED (on object monitor)", "WAITING (parking)", "TIMED_WAITING (sleeping)"}) =>
    /\ heapThreads[currentThread].status = C19_Member(doc[pos].text)
    /\ heapThreads[currentThread].status \in {"BLOCKED", "TIMED_WAITING", "WAITING"}

(* C15: the threads of a dump are the header lines of its text, in order:  *)
(* a header appends one new thread at the end and makes it current, no     *)
(* other step changes the thread sequence of any dump, and the frames of   *)
(* each thread are the frame lines of its section of the text, in order.   *)
HeadersIn(n) == {i \in 1..n : doc[i].kind = "header"}

NthHeader(j, n) ==
  CHOOSE i \in HeadersIn(n) : Cardinality({k \in HeadersIn(n) : k <= i}) = j

SectionEnd(j, n) ==
  IF j < Cardinality(HeadersIn(n)) THEN NthHeader(j + 1, n) - 1 ELSE n

SectionFrames(j, n) ==
  LET isFrame(line) == line.kind = "frame"
      frames == SelectSeq(SubSeq(doc, NthHeader(j, n) + 1, SectionEnd(j, n)), isFrame)
  IN [i \in 1..Len(frames) |-> frames[i].text]

C15_InOrder ==
  /\ pc = "parsing" =>
       /\ Len(dumps[cur].threads) = Cardinality(HeadersIn(pos))
       /\ \A j \in 1..Len(dumps[cur].threads) :
            /\ heapThreads[dumps[cur].threads[j]].name = doc[NthHeader(j, pos)].text
            /\ heapThreads[dumps[cur].threads[j]].stackTrace = SectionFrames(j, pos)
  /\ \A k \in 1..Len(delivered) :
       /\ Len(delivered[k].model.threads) = Cardinality(HeadersIn(Len(doc)))
       /\ \A j \in 1..Len(delivered[k].model.threads) :
            delivered[k].model.threads[j].stackTrace = SectionFrames(j, Len(doc))

C15_OnlyHeadersAppend ==
  IF LineStep /\ LineRead.kind = "header"
  THEN /\ dumps'[cur].threads = Append(dumps[cur].threads, Len(heapThreads) + 1)
       /\ currentThread' = Len(heapThreads) + 1
       /\ Len(heapThreads') = Len(heapThreads) + 1
       /\ \A d \in 1..(cur - 1) : dumps'[d].threads = dumps[d].threads
  ELSE \A d \in 1..Len(dumps) : dumps'[d].threads = dumps[d].threads

\* C15: threads follow the headers, and only a header changes a thread sequence
C15_ThreadOrder == [](C15_InOrder) /\ [][C15_OnlyHeadersAppend]_vars

\* a dump of two threads was delivered, each thread with a frame of its own section
C15_Witness ==
  \E k \in 1..Len(delivered) :
    /\ Len(delivered[k].model.threads) = 2
    /\ Len(delivered[k].model.threads[1].stackTrace) = 1
    /\ Len(delivered[k].model.threads[2].stackTrace) = 1

(* C16: the post-pass gives a selected thread that holds two or more       *)
(* classical locks the first of them as wait-target and takes it out of    *)
(* both lists, the other locks keeping their order; a thread that is not   *)
(* selected keeps its lists and its wait-target.                           *)
C16_Without(s, x) ==
  LET first == CHOOSE i \in 1..Len(s) : s[i] = x /\ \A j \in 1..(i - 1) : s[j] # x
  IN [i \in 1..(Len(s) - 1) |-> IF i < first THEN s[i] ELSE s[i + 1]]

C16_FirstClassicalLock ==
  [][FinishStep =>
       \A t \in ThreadsOf(cur) :
         IF Qualifies(t)
         THEN Len(heapThreads[t].classicalLocksHeld) >= 2 =>
                LET L == heapThreads[t].classicalLocksHeld[1]
                IN /\ heapThreads'[t].lockWaitingFor = L
                   /\ heapThreads'[t].classicalLocksHeld =
                        Tail(heapThreads[t].classicalLocksHeld)
                   /\ heapThreads'[t].locksHeld = C16_Without(heapThreads[t].locksHeld, L)
         ELSE /\ heapThreads'[t].locksHeld = heapThreads[t].locksHeld
              /\ heapThreads'[t].classicalLocksHeld = heapThreads[t].classicalLocksHeld
              /\ heapThreads'[t].lockWaitingFor = heapThreads[t].lockWaitingFor]_vars

(* C17: in every state each thread's classicalLocksHeld is a subset of its *)
(* locksHeld; a 'locked' record adds its lock to both lists, a held-lock   *)
(* record adds its lock to locksHeld only and makes the current thread the *)
(* owner, and the post-pass takes the chosen lock out of both lists.       *)
C17_Subset ==
  \A t \in 1..Len(heapThreads) :
    Range(heapThreads[t].classicalLocksHeld) \subseteq Range(heapThreads[t].locksHeld)

C17_Steps ==
  /\ (LineStep /\ currentThread # undefined /\ LineRead.kind = "held") =>
       LET t == currentThread
           lock == Last(heapThreads'[t].locksHeld)
       IN /\ heapThreads'[t].locksHeld = Append(heapThreads[t].locksHeld, lock)
          /\ heapLocks'[lock].id = LineRead.id
          /\ heapLocks'[lock].owner = t
          /\ heapThreads'[t].classicalLocksHeld = heapThreads[t].classicalLocksHeld
  /\ (/\ LineStep /\ currentThread # undefined
      /\ LineRead.kind = "sync" /\ LineRead.text = "locked"
      /\ heapThreads'[currentThread] # heapThreads[currentThread]) =>
       LET t == currentThread
           lock == Last(heapThreads'[t].locksHeld)
       IN /\ heapThreads'[t].locksHeld = Append(heapThreads[t].locksHeld, lock)
          /\ heapThreads'[t].classicalLocksHeld =
               Append(heapThreads[t].classicalLocksHeld, lock)
  /\ FinishStep =>
       \A t \in ThreadsOf(cur) :
         (heapThreads[t].lockWaitingFor = undefined
            /\ heapThreads'[t].lockWaitingFor # undefined) =>
           LET L == heapThreads'[t].lockWaitingFor
               count(s) == Cardinality({i \in 1..Len(s) : s[i] = L})
           IN /\ Len(heapThreads'[t].locksHeld) = Len(heapThreads[t].locksHeld) - 1
              /\ count(heapThreads'[t].locksHeld) = count(heapThreads[t].locksHeld) - 1
              /\ Len(heapThreads'[t].classicalLocksHeld) =
                   Len(heapThreads[t].classicalLocksHeld) - 1
              /\ count(heapThreads'[t].classicalLocksHeld) =
                   count(heapThreads[t].classicalLocksHeld) - 1

\* C17: the classical list stays within the held list, step by step
C17_ClassicalWithinHeld == [](C17_Subset) /\ [][C17_Steps]_vars

\* a thread holds a lock by a held-lock record next to one by a 'locked' record
C17_Witness ==
  \E t \in 1..Len(heapThreads) :
    /\ heapThreads[t].classicalLocksHeld # <<>>
    /\ Range(heapThreads[t].locksHeld) \ Range(heapThreads[t].classicalLocksHeld) # {}

(* C18: in every state, a lock with an owner is in the owner's locksHeld.  *)
C18_OwnerHolds ==
  \A l \in 1..Len(heapLocks) :
    heapLocks[l].owner # undefined =>
      l \in Range(heapThreads[heapLocks[l].owner].locksHeld)

\* two threads hold one lock, and its owner is the later of them
C18_Witness ==
  \E l \in 1..Len(heapLocks) : \E t \in 1..Len(heapThreads) :
    /\ heapLocks[l].owner # undefined
    /\ t < heapLocks[l].owner
    /\ l \in Range(heapThreads[t].locksHeld)

====
